---- MODULE Spec2Model ----
(***************************************************************************)
(* Model of backend/app/services/transcript_buffer.py: the per-meeting     *)
(* transcript buffer (TranscriptBufferService).                            *)
(*                                                                         *)
(* Python objects have identity, so TranscriptEntry and TranscriptBuffer   *)
(* objects live in two heaps (objs, bufs) and are referred to by their     *)
(* index; 0 is None.  A str is a sequence of one-character strings.        *)
(*                                                                         *)
(* The service's methods are coroutines run by one asyncio event loop: a   *)
(* coroutine runs without interruption up to an await that really          *)
(* suspends.  The only awaits are the acquisitions of a buffer's           *)
(* asyncio.Lock, so each method is cut into the code before the            *)
(* acquisition, the acquisition, and the critical section.                 *)
(***************************************************************************)
EXTENDS Integers, Sequences, FiniteSets

VARIABLES
    buffers,    \* self._buffers: meeting id -> TranscriptBuffer reference (0: no key)
    bufs,       \* heap of TranscriptBuffer objects: entries, full_entries, lock
    objs,       \* heap of TranscriptEntry objects: text, timestamp
    pc,         \* position of each task's coroutine: "idle", "ready", "lock", "cs"
                \* or "done"
    frame,      \* each task's call in progress: arguments, locals, result
    running     \* the task the event loop is running (0: none)

vars == <<buffers, bufs, objs, pc, frame, running>>

----------------------------------------------------------------------------
(* Bounds of the model *)

\* TranscriptEntry objects ever constructed
MaxEntries == 3

\* TranscriptBuffer objects ever constructed
MaxBufs == 2

\* length of the texts the laws of _normalize_text are checked on
MaxLen == 4

\* characters of those texts
Alphabet == {" ", "\t", "a", ".", "!"}

Tasks == {1, 2}

Meetings == {"A", "B"}

\* raw texts handed to add_final_transcript / add_partial_transcript
RawTexts ==
    { <<" ", "\t">>,
      <<"h", "i">> }

\* event timestamps (ms) handed to the ingest calls
Timestamps == {0, 35000}

\* values int(time.time() * 1000) takes in get_recent_entries
Clock == {65000, 70000}

\* the texts scenario: one meeting, texts that normalize to the same and to
\* different strings
TextsMeetings == {"A"}

VariedTexts ==
    { <<" ", "\t">>,
      <<"h", "i">>,
      <<"h", "i", ".", " ">>,
      <<" ", "a", " ", "\t", "b", "!">> }

\* the window scenario: one meeting, one text, three event times
WindowMeetings == {"A"}

WindowTexts == { <<"h", "i">> }

WindowTimestamps == {0, 10000, 35000}

WindowClock == {40000, 70000}

\* the caller scenario: one event time, one text a caller writes into an entry
CallerTimestamps == {35000}

CallerTexts == { <<"x">> }

\* the tasks scenario: calls on one meeting made into concurrent tasks of the
\* event loop
TaskMeetings == {"A"}

TaskTexts == { <<"h", "i">>, <<"a", "!">> }

TaskTimestamps == {35000}

TaskClock == {70000}

\* the two-meetings scenario: two concurrent callers, one for each meeting
PairMeetings == {"A", "B"}

PairTexts == { <<"h", "i">> }

PairClock == {40000}

----------------------------------------------------------------------------
(* Program constants and pure functions *)

BUFFER_WINDOW_MS == 30000

\* characters str.strip() and str.split() treat as whitespace
Whitespace == {" ", "\t", "\n"}

Terminators == {".", "!", "?"}

RECURSIVE lstrip(_)
lstrip(s) ==
    IF s # <<>> /\ Head(s) \in Whitespace THEN lstrip(Tail(s)) ELSE s

RECURSIVE rstrip(_)
rstrip(s) ==
    IF s # <<>> /\ s[Len(s)] \in Whitespace
    THEN rstrip(SubSeq(s, 1, Len(s) - 1))
    ELSE s

\* text.strip()
strip(s) == rstrip(lstrip(s))

\* the longest prefix of s without whitespace
RECURSIVE word(_)
word(s) ==
    IF s = <<>> \/ Head(s) \in Whitespace THEN <<>> ELSE <<Head(s)>> \o word(Tail(s))

\* s.split(): the maximal runs of non-whitespace characters, in order
RECURSIVE split(_)
split(s) ==
    LET r == lstrip(s) IN
    IF r = <<>> THEN <<>>
    ELSE <<word(r)>> \o split(SubSeq(r, Len(word(r)) + 1, Len(r)))

\* sep.join(words)
RECURSIVE join(_, _)
join(sep, words) ==
    IF words = <<>> THEN <<>>
    ELSE IF Len(words) = 1 THEN words[1]
    ELSE words[1] \o sep \o join(sep, Tail(words))

\* _normalize_text without the return of '' for an empty cleaned text
normalize_no_empty(text) ==
    LET cleaned == join(<<" ">>, split(strip(text))) IN
    IF cleaned = <<>> \/ cleaned[Len(cleaned)] \notin Terminators
    THEN Append(cleaned, ".")
    ELSE cleaned

\* _normalize_text that strips the text and does not collapse its whitespace
normalize_no_collapse(text) ==
    LET cleaned == strip(text) IN
    IF cleaned = <<>> THEN <<>>
    ELSE IF cleaned[Len(cleaned)] \notin Terminators THEN Append(cleaned, ".")
    ELSE cleaned

_normalize_text(text) ==
    LET cleaned == join(<<" ">>, split(strip(text))) IN
    IF cleaned = <<>> THEN <<>>
    ELSE IF cleaned[Len(cleaned)] \notin Terminators THEN Append(cleaned, ".")
    ELSE cleaned

\* _prune evicting the entry at the cutoff as well
RECURSIVE prune_inclusive(_, _, _)
prune_inclusive(es, heap, current_ts) ==
    LET cutoff == current_ts - BUFFER_WINDOW_MS IN
    IF es # <<>> /\ heap[Head(es)].timestamp <= cutoff
    THEN prune_inclusive(Tail(es), heap, current_ts)
    ELSE es

\* _prune as a scan of the whole deque, removing every expired entry
RECURSIVE prune_scan(_, _, _)
prune_scan(es, heap, current_ts) ==
    LET cutoff == current_ts - BUFFER_WINDOW_MS IN
    IF es = <<>> THEN <<>>
    ELSE IF heap[Head(es)].timestamp < cutoff
    THEN prune_scan(Tail(es), heap, current_ts)
    ELSE <<Head(es)>> \o prune_scan(Tail(es), heap, current_ts)

\* _prune on the deque es of entry references: the deque it leaves
RECURSIVE _prune(_, _, _)
_prune(es, heap, current_ts) ==
    LET cutoff == current_ts - BUFFER_WINDOW_MS IN
    IF es # <<>> /\ heap[Head(es)].timestamp < cutoff
    THEN _prune(Tail(es), heap, current_ts)
    ELSE es

\* IsDuplicate as a membership test on the whole deque
IsDuplicateAnywhere(allow_duplicates, es, heap, normalized) ==
    /\ ~allow_duplicates
    /\ \E i \in 1..Len(es) : heap[es[i]].text = normalized

\* IsDuplicate comparing with the first entry of the deque
IsDuplicateOfFirst(allow_duplicates, es, heap, normalized) ==
    /\ ~allow_duplicates
    /\ es # <<>>
    /\ heap[es[1]].text = normalized

\* line 58: the duplicate test of a fragment against the deque es
IsDuplicate(allow_duplicates, es, heap, normalized) ==
    /\ ~allow_duplicates
    /\ es # <<>>
    /\ heap[es[Len(es)]].text = normalized

----------------------------------------------------------------------------
(* State *)

\* TranscriptBuffer(): empty deque, empty list, unlocked lock
TranscriptBuffer == [entries |-> <<>>, full_entries |-> <<>>, lock |-> FALSE]

\* TranscriptEntry(text, timestamp)
TranscriptEntry(text, timestamp) == [text |-> text, timestamp |-> timestamp]

NoFrame ==
    [op |-> "none", meeting_id |-> "", text |-> <<>>, timestamp |-> 0,
     allow_duplicates |-> FALSE, buffer |-> 0, entry |-> 0, now |-> 0,
     ret |-> 0, out |-> <<>>]

\* the frame of a call of op on meeting m
Call(op, m) == [NoFrame EXCEPT !.op = op, !.meeting_id = m]

\* the recent view of a meeting: the deque of its registered buffer
recent(m) == IF buffers[m] = 0 THEN <<>> ELSE bufs[buffers[m]].entries

\* the history view of a meeting: the list of its registered buffer
history(m) == IF buffers[m] = 0 THEN <<>> ELSE bufs[buffers[m]].full_entries

Init ==
    /\ buffers = [m \in Meetings |-> 0]
    /\ bufs = <<>>
    /\ objs = <<>>
    /\ pc = [t \in Tasks |-> "idle"]
    /\ frame = [t \in Tasks |-> NoFrame]
    /\ running = 0

\* the event loop starts a call in task t: no coroutine is running, and either
\* the call is awaited directly and t is the first free task (every task before
\* it is suspended inside a call), or t is a task waiting in the ready queue
CanStart(t) ==
    /\ running = 0
    /\ \/ /\ pc[t] = "idle"
          /\ \A u \in Tasks : u < t => pc[u] \in {"lock", "cs"}
       \/ pc[t] = "ready"

\* the event loop runs (or resumes) task t at position p
CanRun(t, p) ==
    /\ running \in {0, t}
    /\ pc[t] = p

\* the call of task t returns: the coroutine ends with its result in f and the
\* loop is free
Return(t, f) ==
    /\ pc' = [pc EXCEPT ![t] = "done"]
    /\ frame' = [frame EXCEPT ![t] = f]
    /\ running' = 0

\* the call of task t goes on to acquire buffer b's lock
ToLock(t, f) ==
    /\ pc' = [pc EXCEPT ![t] = "lock"]
    /\ frame' = [frame EXCEPT ![t] = f]
    /\ running' = t

\* stored without the prune of line 65
stored_unpruned(buffer, heap, entry) ==
    [buffer EXCEPT
        !.entries = Append(buffer.entries, entry),
        !.full_entries = Append(buffer.full_entries, entry)]

\* stored appending the entry at the front of the deque
stored_front(buffer, heap, entry) ==
    [buffer EXCEPT
        !.entries = <<entry>> \o _prune(buffer.entries, heap, heap[entry].timestamp),
        !.full_entries = Append(buffer.full_entries, entry)]

\* stored without the append to the history of line 67
stored_recent_only(buffer, heap, entry) ==
    [buffer EXCEPT
        !.entries = Append(_prune(buffer.entries, heap, heap[entry].timestamp), entry)]

\* lines 65-67 on a buffer: prune by the entry's timestamp, append to both views
stored(buffer, heap, entry) ==
    [buffer EXCEPT
        !.entries = Append(_prune(buffer.entries, heap, heap[entry].timestamp), entry),
        !.full_entries = Append(buffer.full_entries, entry)]

\* pruned, pruning the history as well
pruned_both(buffer, heap, now) ==
    [buffer EXCEPT
        !.entries = _prune(buffer.entries, heap, now),
        !.full_entries = _prune(buffer.full_entries, heap, now)]

\* line 87 on a buffer: prune the deque by the wall clock
pruned(buffer, heap, now) ==
    [buffer EXCEPT !.entries = _prune(buffer.entries, heap, now)]

\* lines 77-78 on a buffer: both views cleared
drained(buffer) ==
    [buffer EXCEPT !.entries = <<>>, !.full_entries = <<>>]

----------------------------------------------------------------------------
(* Operations *)

\* init_meeting without the test for a registered buffer
init_meeting_always(t, meeting_id) ==
    /\ CanStart(t)
    /\ Len(bufs) < MaxBufs
    /\ bufs' = Append(bufs, TranscriptBuffer)
    /\ buffers' = [buffers EXCEPT ![meeting_id] = Len(bufs) + 1]
    /\ Return(t, Call("init_meeting", meeting_id))
    /\ UNCHANGED objs

init_meeting(t, meeting_id) ==
    /\ CanStart(t)
    /\ IF buffers[meeting_id] # 0
       THEN UNCHANGED <<buffers, bufs>>
       ELSE /\ Len(bufs) < MaxBufs
            /\ bufs' = Append(bufs, TranscriptBuffer)
            /\ buffers' = [buffers EXCEPT ![meeting_id] = Len(bufs) + 1]
    /\ Return(t, Call("init_meeting", meeting_id))
    /\ UNCHANGED objs

\* _store_transcript registering a new buffer whether or not the id has one
store_always_registers(t, meeting_id, text, timestamp, allow_duplicates, label) ==
    LET buffer == Len(bufs) + 1
        normalized == _normalize_text(text)
        f == [Call(label, meeting_id) EXCEPT
                !.text = text, !.timestamp = timestamp,
                !.allow_duplicates = allow_duplicates, !.buffer = buffer]
    IN
    /\ CanStart(t)
    /\ Len(bufs) < MaxBufs
    /\ buffers' = [buffers EXCEPT ![meeting_id] = buffer]
    /\ bufs' = Append(bufs, TranscriptBuffer)
    /\ IF normalized = <<>>
       THEN Return(t, f) /\ UNCHANGED objs
       ELSE /\ Len(objs) < MaxEntries
            /\ objs' = Append(objs, TranscriptEntry(normalized, timestamp))
            /\ ToLock(t, [f EXCEPT !.entry = Len(objs) + 1])

\* lines 46-62: everything before the lock is acquired
_store_transcript(t, meeting_id, text, timestamp, allow_duplicates, label) ==
    LET created == buffers[meeting_id] = 0
        buffer == IF created THEN Len(bufs) + 1 ELSE buffers[meeting_id]
        heap == IF created THEN Append(bufs, TranscriptBuffer) ELSE bufs
        normalized == _normalize_text(text)
        f == [Call(label, meeting_id) EXCEPT
                !.text = text, !.timestamp = timestamp,
                !.allow_duplicates = allow_duplicates, !.buffer = buffer]
    IN
    /\ CanStart(t)
    /\ created => Len(bufs) < MaxBufs
    /\ buffers' = [buffers EXCEPT ![meeting_id] = buffer]
    /\ bufs' = heap
    /\ IF normalized = <<>>
       THEN Return(t, f) /\ UNCHANGED objs
       ELSE IF IsDuplicate(allow_duplicates, heap[buffer].entries, objs, normalized)
       THEN Return(t, f) /\ UNCHANGED objs
       ELSE /\ Len(objs) < MaxEntries
            /\ objs' = Append(objs, TranscriptEntry(normalized, timestamp))
            /\ ToLock(t, [f EXCEPT !.entry = Len(objs) + 1])

add_final_transcript(t, meeting_id, text, timestamp) ==
    _store_transcript(t, meeting_id, text, timestamp, FALSE, "FINAL")

\* add_partial_transcript forbidding duplicates like add_final_transcript
add_partial_deduplicated(t, meeting_id, text, timestamp) ==
    _store_transcript(t, meeting_id, text, timestamp, FALSE, "PARTIAL")

add_partial_transcript(t, meeting_id, text, timestamp) ==
    _store_transcript(t, meeting_id, text, timestamp, TRUE, "PARTIAL")

\* clear_meeting emptying the whole registry
clear_meeting_all(t, meeting_id) ==
    LET buffer == buffers[meeting_id]
        f == [Call("clear_meeting", meeting_id) EXCEPT !.buffer = buffer]
    IN
    /\ CanStart(t)
    /\ buffers' = [m \in Meetings |-> 0]
    /\ IF buffer = 0 THEN Return(t, f) ELSE ToLock(t, f)
    /\ UNCHANGED <<bufs, objs>>

\* clear_meeting looking the buffer up and leaving it registered
clear_meeting_keep(t, meeting_id) ==
    LET buffer == buffers[meeting_id]
        f == [Call("clear_meeting", meeting_id) EXCEPT !.buffer = buffer]
    IN
    /\ CanStart(t)
    /\ IF buffer = 0 THEN Return(t, f) ELSE ToLock(t, f)
    /\ UNCHANGED <<buffers, bufs, objs>>

\* lines 73-75: pop the buffer from the registry
clear_meeting(t, meeting_id) ==
    LET buffer == buffers[meeting_id]
        f == [Call("clear_meeting", meeting_id) EXCEPT !.buffer = buffer]
    IN
    /\ CanStart(t)
    /\ buffers' = [buffers EXCEPT ![meeting_id] = 0]
    /\ IF buffer = 0 THEN Return(t, f) ELSE ToLock(t, f)
    /\ UNCHANGED <<bufs, objs>>

\* lines 81-85
get_recent_entries(t, meeting_id) ==
    LET buffer == buffers[meeting_id]
        f == [Call("get_recent_entries", meeting_id) EXCEPT !.buffer = buffer]
    IN
    /\ CanStart(t)
    /\ IF buffer = 0 THEN Return(t, f) ELSE ToLock(t, f)
    /\ UNCHANGED <<buffers, bufs, objs>>

\* get_full_entries registering a buffer for an id that has none
get_full_entries_registering(t, meeting_id) ==
    LET created == buffers[meeting_id] = 0
        buffer == IF created THEN Len(bufs) + 1 ELSE buffers[meeting_id]
        f == [Call("get_full_entries", meeting_id) EXCEPT !.buffer = buffer]
    IN
    /\ CanStart(t)
    /\ created => Len(bufs) < MaxBufs
    /\ buffers' = [buffers EXCEPT ![meeting_id] = buffer]
    /\ bufs' = IF created THEN Append(bufs, TranscriptBuffer) ELSE bufs
    /\ ToLock(t, f)
    /\ UNCHANGED objs

\* lines 95-99
get_full_entries(t, meeting_id) ==
    LET buffer == buffers[meeting_id]
        f == [Call("get_full_entries", meeting_id) EXCEPT !.buffer = buffer]
    IN
    /\ CanStart(t)
    /\ IF buffer = 0 THEN Return(t, f) ELSE ToLock(t, f)
    /\ UNCHANGED <<buffers, bufs, objs>>

\* lock_acquire entering the critical section without taking the lock
lock_acquire_unlocked(t) ==
    /\ CanRun(t, "lock")
    /\ pc' = [pc EXCEPT ![t] = "cs"]
    /\ running' = t
    /\ UNCHANGED <<buffers, bufs, objs, frame>>

\* lock_acquire suspending the coroutine also when it takes a free lock
lock_acquire_yields(t) ==
    LET buffer == frame[t].buffer IN
    /\ CanRun(t, "lock")
    /\ IF ~bufs[buffer].lock
       THEN /\ bufs' = [bufs EXCEPT ![buffer].lock = TRUE]
            /\ pc' = [pc EXCEPT ![t] = "cs"]
       ELSE UNCHANGED <<bufs, pc>>
    /\ running' = 0
    /\ UNCHANGED <<buffers, objs, frame>>

\* async with buffer.lock (lines 64, 76, 86, 100): asyncio.Lock.acquire takes a
\* free lock without suspending; on a held lock the coroutine suspends and the
\* event loop is free to run another task
lock_acquire(t) ==
    LET buffer == frame[t].buffer IN
    /\ CanRun(t, "lock")
    /\ IF ~bufs[buffer].lock
       THEN /\ bufs' = [bufs EXCEPT ![buffer].lock = TRUE]
            /\ pc' = [pc EXCEPT ![t] = "cs"]
            /\ running' = t
       ELSE /\ running' = 0
            /\ UNCHANGED <<bufs, pc>>
    /\ UNCHANGED <<buffers, objs, frame>>

\* store_commit returning without releasing the lock
store_commit_holds(t) ==
    LET f == frame[t] IN
    /\ CanRun(t, "cs")
    /\ f.op \in {"FINAL", "PARTIAL"}
    /\ bufs' = [bufs EXCEPT ![f.buffer] = stored(@, objs, f.entry)]
    /\ Return(t, [f EXCEPT !.ret = f.entry])
    /\ UNCHANGED <<buffers, objs>>

\* lines 65-70: prune, append to both views, release, return the entry
store_commit(t) ==
    LET f == frame[t] IN
    /\ CanRun(t, "cs")
    /\ f.op \in {"FINAL", "PARTIAL"}
    /\ bufs' = [bufs EXCEPT ![f.buffer] = [stored(@, objs, f.entry) EXCEPT !.lock = FALSE]]
    /\ Return(t, [f EXCEPT !.ret = f.entry])
    /\ UNCHANGED <<buffers, objs>>

\* lines 77-78: drain both views, release
clear_drain(t) ==
    LET f == frame[t] IN
    /\ CanRun(t, "cs")
    /\ f.op = "clear_meeting"
    /\ bufs' = [bufs EXCEPT ![f.buffer] = [drained(@) EXCEPT !.lock = FALSE]]
    /\ Return(t, f)
    /\ UNCHANGED <<buffers, objs>>

\* lines 87-92: prune by the wall clock, copy the deque, release
recent_copy(t, now) ==
    LET f == frame[t]
        after == pruned(bufs[f.buffer], objs, now)
    IN
    /\ CanRun(t, "cs")
    /\ f.op = "get_recent_entries"
    /\ bufs' = [bufs EXCEPT ![f.buffer] = [after EXCEPT !.lock = FALSE]]
    /\ Return(t, [f EXCEPT !.now = now, !.out = after.entries])
    /\ UNCHANGED <<buffers, objs>>

\* lines 101-103: copy the list, release
full_copy(t) ==
    LET f == frame[t] IN
    /\ CanRun(t, "cs")
    /\ f.op = "get_full_entries"
    /\ bufs' = [bufs EXCEPT ![f.buffer].lock = FALSE]
    /\ Return(t, [f EXCEPT !.out = bufs[f.buffer].full_entries])
    /\ UNCHANGED <<buffers, objs>>

\* the caller takes the result of its finished call, once every call made
\* with it has returned (asyncio.gather); the task is free again
collect(t) ==
    /\ pc[t] = "done"
    /\ \A u \in Tasks : pc[u] \in {"idle", "done"}
    /\ pc' = [pc EXCEPT ![t] = "idle"]
    /\ frame' = [frame EXCEPT ![t] = NoFrame]
    /\ UNCHANGED <<buffers, bufs, objs, running>>

\* the caller assigns text x to a TranscriptEntry it was handed: the entry returned
\* by an ingest (line 70) or an element of a returned list (lines 88, 101), which
\* are the stored objects themselves, and the dataclass is not frozen
caller_sets_text(t, x) ==
    /\ pc[t] = "done"
    /\ \E r \in {frame[t].ret} \cup {frame[t].out[i] : i \in 1..Len(frame[t].out)} :
          /\ r # 0
          /\ objs[r].text # x
          /\ objs' = [objs EXCEPT ![r].text = x]
    /\ UNCHANGED <<buffers, bufs, pc, frame, running>>

\* the caller removes the first element of a list it was handed: list(...) at
\* lines 88 and 101 built that list for the caller alone
caller_pops_list(t) ==
    /\ pc[t] = "done"
    /\ frame[t].out # <<>>
    /\ frame' = [frame EXCEPT ![t].out = Tail(@)]
    /\ UNCHANGED <<buffers, bufs, objs, pc, running>>

\* the calls that construct a TranscriptBuffer (lines 35, 49) and those that
\* construct a TranscriptEntry (line 62)
Registering == {"init_meeting", "FINAL", "PARTIAL"}

Storing == {"FINAL", "PARTIAL"}

\* the calls waiting in the ready queue once task t holds `call`
Batch(t) == {u \in Tasks : pc[u] = "ready"} \cup {t}

CallOf(u, t, call) == IF u = t THEN call ELSE frame[u]

\* how many of them may construct a TranscriptBuffer: those that register a
\* buffer for an id that has none now or that a waiting clear_meeting pops
MayRegister(t, call) ==
    Cardinality({u \in Batch(t) :
        /\ CallOf(u, t, call).op \in Registering
        /\ \/ buffers[CallOf(u, t, call).meeting_id] = 0
           \/ \E v \in Batch(t) :
                 /\ CallOf(v, t, call).op = "clear_meeting"
                 /\ CallOf(v, t, call).meeting_id = CallOf(u, t, call).meeting_id})

\* how many of them may construct a TranscriptEntry
MayStore(t, call) ==
    Cardinality({u \in Batch(t) : CallOf(u, t, call).op \in Storing})

\* a caller makes the call `call` into a task (asyncio.gather, create_task, a
\* request handler): the coroutine object holds the arguments and waits in the
\* ready queue.  Callers make their calls in batches, the tasks taken in
\* order, before any of the batch runs; a call is made only while the objects
\* the batch may construct fit the model's bounds
create_task(t, call) ==
    /\ pc[t] = "idle"
    /\ \A u \in Tasks : u < t => pc[u] = "ready"
    /\ \A u \in Tasks : u > t => pc[u] = "idle"
    /\ Len(bufs) + MayRegister(t, call) <= MaxBufs
    /\ Len(objs) + MayStore(t, call) <= MaxEntries
    /\ pc' = [pc EXCEPT ![t] = "ready"]
    /\ frame' = [frame EXCEPT ![t] = call]
    /\ UNCHANGED <<buffers, bufs, objs, running>>

\* the event loop runs a ready task: its coroutine starts with the arguments of
\* the call and runs up to its first suspension
run_task(t) ==
    LET f == frame[t] IN
    /\ pc[t] = "ready"
    /\ \/ f.op = "init_meeting" /\ init_meeting(t, f.meeting_id)
       \/ f.op = "FINAL"
            /\ add_final_transcript(t, f.meeting_id, f.text, f.timestamp)
       \/ f.op = "PARTIAL"
            /\ add_partial_transcript(t, f.meeting_id, f.text, f.timestamp)
       \/ f.op = "clear_meeting" /\ clear_meeting(t, f.meeting_id)
       \/ f.op = "get_recent_entries" /\ get_recent_entries(t, f.meeting_id)
       \/ f.op = "get_full_entries" /\ get_full_entries(t, f.meeting_id)

\* the calls with meeting ids M, texts X, event times TS and wall-clock values CK
NextOn(M, X, TS, CK) ==
    \/ \E t \in Tasks, m \in M : init_meeting(t, m)
    \/ \E t \in Tasks, m \in M, x \in X, ts \in TS : add_final_transcript(t, m, x, ts)
    \/ \E t \in Tasks, m \in M, x \in X, ts \in TS : add_partial_transcript(t, m, x, ts)
    \/ \E t \in Tasks, m \in M : clear_meeting(t, m)
    \/ \E t \in Tasks, m \in M : get_recent_entries(t, m)
    \/ \E t \in Tasks, m \in M : get_full_entries(t, m)
    \/ \E t \in Tasks : lock_acquire(t)
    \/ \E t \in Tasks : store_commit(t)
    \/ \E t \in Tasks : clear_drain(t)
    \/ \E t \in Tasks, now \in CK : recent_copy(t, now)
    \/ \E t \in Tasks : full_copy(t)
    \/ \E t \in Tasks : collect(t)

Next == NextOn(Meetings, RawTexts, Timestamps, Clock)

Spec == Init /\ [][Next]_vars

NextTexts == NextOn(TextsMeetings, VariedTexts, Timestamps, Clock)

SpecTexts == Init /\ [][NextTexts]_vars

NextWindow == NextOn(WindowMeetings, WindowTexts, WindowTimestamps, WindowClock)

SpecWindow == Init /\ [][NextWindow]_vars

\* the service with a caller that mutates what it was handed
NextCaller ==
    \/ NextOn(WindowMeetings, WindowTexts, CallerTimestamps, WindowClock)
    \/ \E t \in Tasks, x \in CallerTexts : caller_sets_text(t, x)
    \/ \E t \in Tasks : caller_pops_list(t)

SpecCaller == Init /\ [][NextCaller]_vars

\* the calls a caller can make into a task
Calls(M, X, TS) ==
    {Call(op, m) : op \in {"init_meeting", "clear_meeting", "get_recent_entries",
                           "get_full_entries"}, m \in M}
    \cup {[Call(op, m) EXCEPT !.text = x, !.timestamp = ts] :
              op \in Storing, m \in M, x \in X, ts \in TS}

\* the service called from concurrent tasks of one event loop, task t making
\* the calls C[t], with wall-clock values CK
TasksOn(C, CK) ==
    \/ \E t \in Tasks : \E call \in C[t] : create_task(t, call)
    \/ \E t \in Tasks : run_task(t)
    \/ \E t \in Tasks : lock_acquire(t)
    \/ \E t \in Tasks : store_commit(t)
    \/ \E t \in Tasks : clear_drain(t)
    \/ \E t \in Tasks, now \in CK : recent_copy(t, now)
    \/ \E t \in Tasks : full_copy(t)
    \/ \E t \in Tasks : collect(t)

\* every task makes any call on the one meeting
TaskCalls(t) == Calls(TaskMeetings, TaskTexts, TaskTimestamps)

NextTasks == TasksOn([t \in Tasks |-> TaskCalls(t)], TaskClock)

SpecTasks == Init /\ [][NextTasks]_vars

\* task 1 is the caller of meeting "A", task 2 that of meeting "B": init_meeting,
\* add_final_transcript, get_recent_entries, get_full_entries, clear_meeting
PairCalls(t) ==
    {call \in Calls({IF t = 1 THEN "A" ELSE "B"}, PairTexts, TaskTimestamps) :
        call.op # "PARTIAL"}

NextPair == TasksOn([t \in Tasks |-> PairCalls(t)], PairClock)

SpecPair == Init /\ [][NextPair]_vars

\* the event loop is fair: its ready queue is first in, first out, so a task
\* that stays ready is run, and a coroutine that can go on does
Fairness ==
    \A t \in Tasks :
        /\ WF_vars(run_task(t))
        /\ WF_vars(lock_acquire(t))
        /\ WF_vars(store_commit(t) \/ clear_drain(t) \/ full_copy(t)
                      \/ \E now \in PairClock : recent_copy(t, now))

SpecFair == SpecPair /\ Fairness

----------------------------------------------------------------------------
(* Vocabulary of the properties *)

Last(s) == s[Len(s)]

IsPrefix(a, b) == Len(a) <= Len(b) /\ SubSeq(b, 1, Len(a)) = a

IsSuffix(a, b) == Len(a) <= Len(b) /\ SubSeq(b, Len(b) - Len(a) + 1, Len(b)) = a

\* this step starts a call of op on meeting m in task t
Starts(t, op, m) ==
    /\ pc[t] \in {"idle", "ready"}
    /\ pc'[t] \notin {"idle", "ready"}
    /\ frame'[t].op = op
    /\ frame'[t].meeting_id = m

\* this step is the critical section of task t's call of op on meeting m
Commits(t, op, m) ==
    /\ pc[t] = "cs"
    /\ pc'[t] = "done"
    /\ frame[t].op = op
    /\ frame[t].meeting_id = m

\* task t has finished a call of op on meeting m and holds its result
Finished(t, op, m) ==
    /\ pc[t] = "done"
    /\ frame[t].op = op
    /\ frame[t].meeting_id = m

----------------------------------------------------------------------------
(* C1: adjacency dedup for final fragments.  A call of add_final_transcript *)
(* on meeting m whose normalized text equals the text of the last entry of  *)
(* m's recent view returns None and leaves recent and history as they are,  *)
(* whatever the timestamps; any other final fragment with non-empty         *)
(* normalized text, one equal to an earlier entry included, is accepted:    *)
(* its entry is appended to recent and to history and returned.             *)
C1_AdjacencyDedup ==
    [][\A t \in Tasks, m \in Meetings :
        /\ Starts(t, "FINAL", m) =>
            LET n == _normalize_text(frame'[t].text) IN
            n # <<>> =>
                IF recent(m) # <<>> /\ objs[Last(recent(m))].text = n
                THEN /\ pc'[t] = "done"
                     /\ frame'[t].ret = 0
                     /\ recent(m)' = recent(m)
                     /\ history(m)' = history(m)
                     /\ objs' = objs
                ELSE /\ pc'[t] = "lock"
                     /\ frame'[t].entry = Len(objs) + 1
                     /\ objs' = Append(objs, [text |-> n, timestamp |-> frame'[t].timestamp])
        /\ Commits(t, "FINAL", m) =>
            /\ frame'[t].ret = frame[t].entry
            /\ recent(m)' # <<>>
            /\ Last(recent(m)') = frame[t].entry
            /\ history(m)' = Append(history(m), frame[t].entry)
      ]_vars

\* a final fragment was accepted although an earlier entry still in recent, not
\* the last one, has its text
C1_Witness ==
    \E t \in Tasks, m \in Meetings :
        /\ Finished(t, "FINAL", m)
        /\ frame[t].ret # 0
        /\ Last(recent(m)) = frame[t].ret
        /\ \E i \in 1..(Len(recent(m)) - 2) :
              objs[recent(m)[i]].text = objs[frame[t].ret].text

----------------------------------------------------------------------------
(* C2: the history view is append-only and never pruned.  Unless the step   *)
(* clears meeting m, history(m) only grows, and only by the critical        *)
(* section of an accepted ingest for m appending the entry it returns; no   *)
(* other step (prune, get_recent_entries, get_full_entries, init) removes   *)
(* or reorders a history entry, no stored entry changes, and recent(m) is   *)
(* always a subsequence of history(m): what was evicted from recent is      *)
(* still in history, in the same order.                                     *)

RECURSIVE IsSubseq(_, _)
IsSubseq(a, b) ==
    IF a = <<>> THEN TRUE
    ELSE IF b = <<>> THEN FALSE
    ELSE IF Head(a) = Head(b) THEN IsSubseq(Tail(a), Tail(b))
    ELSE IsSubseq(a, Tail(b))

\* this step is the critical section of an ingest for meeting m in task t
Ingests(t, m) == Commits(t, "FINAL", m) \/ Commits(t, "PARTIAL", m)

C2_HistoryAppendOnly ==
    [][/\ \A r \in 1..Len(objs) : r <= Len(objs') /\ objs'[r] = objs[r]
       /\ \A m \in Meetings :
            /\ ~(buffers[m] # 0 /\ buffers'[m] = 0) =>
                /\ IsPrefix(history(m), history(m)')
                /\ history(m)' # history(m) =>
                      \E t \in Tasks :
                          /\ Ingests(t, m)
                          /\ frame'[t].ret # 0
                          /\ history(m)' = Append(history(m), frame'[t].ret)
            /\ \A t \in Tasks :
                  Ingests(t, m) => history(m)' = Append(history(m), frame'[t].ret)
            /\ IsSubseq(recent(m)', history(m)')
      ]_vars

\* get_recent_entries has evicted every entry of a meeting from recent, and its
\* history still holds them
C2_Witness ==
    \E t \in Tasks, m \in Meetings :
        /\ Finished(t, "get_recent_entries", m)
        /\ recent(m) = <<>>
        /\ Len(history(m)) >= 2

----------------------------------------------------------------------------
(* C3: window pruning, for entries ingested with non-decreasing timestamps. *)

\* the timestamps of the entries es never decrease
NonDecreasing(es) ==
    \A i \in 1..(Len(es) - 1) : objs[es[i]].timestamp <= objs[es[i + 1]].timestamp

\* the entries of es with a timestamp of at least cutoff, in order
RECURSIVE Since(_, _)
Since(es, cutoff) ==
    IF es = <<>> THEN <<>>
    ELSE IF objs[Head(es)].timestamp >= cutoff
    THEN <<Head(es)>> \o Since(Tail(es), cutoff)
    ELSE Since(Tail(es), cutoff)

\* the entries of meeting m within the window of its latest timestamp
InWindow(m) == Since(history(m), objs[Last(history(m))].timestamp - BUFFER_WINDOW_MS)

(* C3 as stated: after the ingest with the latest timestamp t,              *)
(* get_recent_entries returns exactly the entries with timestamp >= t -     *)
(* 30000 in ingestion order, and get_full_entries returns every entry.      *)
C3_AsStated ==
    \A t \in Tasks, m \in Meetings :
        /\ (Finished(t, "get_recent_entries", m) /\ history(m) # <<>>
                /\ NonDecreasing(history(m)))
              => frame[t].out = InWindow(m)
        /\ Finished(t, "get_full_entries", m) => frame[t].out = history(m)

(* C3 amended: an ingest with timestamp t, not below the timestamps ingested *)
(* before, leaves in recent exactly its entries with timestamp >= t - 30000  *)
(* followed by the new entry; get_recent_entries prunes by the wall clock:   *)
(* read at `now` it returns exactly the entries of recent with timestamp >=  *)
(* now - 30000, in ingestion order, which are always among the entries with  *)
(* timestamp >= t - 30000; get_full_entries returns every ingested entry.    *)
C3_WindowPruning ==
    [][\A t \in Tasks, m \in Meetings :
        /\ (Ingests(t, m) /\ NonDecreasing(Append(history(m), frame[t].entry))) =>
            /\ recent(m)' = Append(Since(recent(m),
                                objs[frame[t].entry].timestamp - BUFFER_WINDOW_MS),
                                frame[t].entry)
            /\ IsSuffix(recent(m)', InWindow(m)')
            /\ history(m)' = Append(history(m), frame[t].entry)
        /\ (Commits(t, "get_recent_entries", m) /\ NonDecreasing(history(m))) =>
            /\ frame'[t].out = Since(recent(m), frame'[t].now - BUFFER_WINDOW_MS)
            /\ recent(m)' = frame'[t].out
            /\ history(m)' = history(m)
            /\ history(m) # <<>> => IsSuffix(frame'[t].out, InWindow(m))
        /\ Commits(t, "get_full_entries", m) =>
            /\ frame'[t].out = history(m)
            /\ history(m)' = history(m)
            /\ recent(m)' = recent(m)
      ]_vars

\* entries at 0, 10000 and 35000, and get_recent_entries has returned the last two
C3_Witness ==
    \E t \in Tasks, m \in Meetings :
        /\ Finished(t, "get_recent_entries", m)
        /\ Len(history(m)) = 3
        /\ objs[history(m)[1]].timestamp = 0
        /\ objs[history(m)[2]].timestamp = 10000
        /\ objs[history(m)[3]].timestamp = 35000
        /\ frame[t].out = SubSeq(history(m), 2, 3)

----------------------------------------------------------------------------
(* C4: partial fragments are never deduplicated.  Every call of             *)
(* add_partial_transcript whose text normalizes to a non-empty string goes  *)
(* on to store an entry with that text, appends it to recent and to         *)
(* history and returns it, also when the last entry of recent has the same  *)
(* text.                                                                    *)
C4_PartialNeverDeduplicated ==
    [][\A t \in Tasks, m \in Meetings :
        /\ Starts(t, "PARTIAL", m) =>
            LET n == _normalize_text(frame'[t].text) IN
            n # <<>> =>
                /\ pc'[t] = "lock"
                /\ frame'[t].entry = Len(objs) + 1
                /\ objs' = Append(objs, [text |-> n, timestamp |-> frame'[t].timestamp])
        /\ Commits(t, "PARTIAL", m) =>
            /\ frame'[t].ret = frame[t].entry
            /\ frame'[t].ret # 0
            /\ recent(m)' # <<>>
            /\ Last(recent(m)') = frame[t].entry
            /\ history(m)' = Append(history(m), frame[t].entry)
      ]_vars

\* a partial fragment was stored right after an entry with the same text
C4_Witness ==
    \E t \in Tasks, m \in Meetings :
        /\ Finished(t, "PARTIAL", m)
        /\ frame[t].ret # 0
        /\ Len(recent(m)) >= 2
        /\ Last(recent(m)) = frame[t].ret
        /\ objs[recent(m)[Len(recent(m)) - 1]].text = objs[frame[t].ret].text

----------------------------------------------------------------------------
(* C5: empty input is rejected without effect.  An ingest, final or        *)
(* partial, of a text made of whitespace only (the texts that normalize to *)
(* the empty string) returns None at once and leaves the recent and        *)
(* history views of every meeting and every entry as they are.             *)

\* the text has no character other than whitespace
Blank(text) == \A i \in 1..Len(text) : text[i] \in Whitespace

C5_EmptyInputRejected ==
    [][\A t \in Tasks, m \in Meetings, op \in {"FINAL", "PARTIAL"} :
        (Starts(t, op, m) /\ Blank(frame'[t].text)) =>
            /\ pc'[t] = "done"
            /\ frame'[t].ret = 0
            /\ objs' = objs
            /\ \A m2 \in Meetings :
                  recent(m2)' = recent(m2) /\ history(m2)' = history(m2)
      ]_vars

\* a whitespace-only text was rejected on a meeting that holds entries
C5_Witness ==
    \E t \in Tasks, m \in Meetings, op \in {"FINAL", "PARTIAL"} :
        /\ Finished(t, op, m)
        /\ Blank(frame[t].text)
        /\ frame[t].text # <<>>
        /\ frame[t].ret = 0
        /\ recent(m) # <<>>

----------------------------------------------------------------------------
(* C6: isolation across meetings.  A step of a call on meeting a leaves the *)
(* registration, the recent view and the history view of every other        *)
(* meeting b as they are, entries included; no entry is in the views of two *)
(* meetings and no buffer is registered for two meetings.                   *)

\* this step belongs to a call on meeting m in task t
ActsOn(t, m) ==
    \/ pc[t] = "idle" /\ pc'[t] # "idle" /\ frame'[t].meeting_id = m
    \/ pc[t] # "idle" /\ pc'[t] # pc[t] /\ frame[t].meeting_id = m

\* the entries of a sequence of references
Values(es) == [i \in 1..Len(es) |-> objs[es[i]]]

Refs(es) == {es[i] : i \in 1..Len(es)}

C6_Isolation ==
    [][/\ \A t \in Tasks, a \in Meetings, b \in Meetings :
            (ActsOn(t, a) /\ b # a) =>
                /\ buffers'[b] = buffers[b]
                /\ recent(b)' = recent(b)
                /\ history(b)' = history(b)
                /\ Values(recent(b))' = Values(recent(b))
                /\ Values(history(b))' = Values(history(b))
       /\ \A a \in Meetings, b \in Meetings :
            b # a =>
                /\ buffers'[a] = 0 \/ buffers'[a] # buffers'[b]
                /\ (Refs(recent(a)') \cup Refs(history(a)'))
                      \cap (Refs(recent(b)') \cup Refs(history(b)')) = {}
      ]_vars

\* a buffer of one meeting was cleared while another meeting holds entries
C6_Witness ==
    \E t \in Tasks, a \in Meetings, b \in Meetings :
        /\ b # a
        /\ Finished(t, "clear_meeting", a)
        /\ frame[t].buffer # 0
        /\ recent(b) # <<>>
        /\ history(b) # <<>>

----------------------------------------------------------------------------
(* C7: clear, then reuse.  clear_meeting unregisters the buffer of m and    *)
(* drains it, so that get_recent_entries and get_full_entries on m return   *)
(* empty lists; on an id without a buffer it changes nothing.  The next     *)
(* ingest for m registers a new, empty buffer, an object different from     *)
(* every buffer made before, so that the history of m holds only entries    *)
(* accepted after the clear; a buffer that is no longer registered holds    *)
(* nothing once its clear has finished.                                     *)
C7_ClearThenReuse ==
    [][\A t \in Tasks, m \in Meetings :
        /\ Starts(t, "clear_meeting", m) =>
            /\ buffers' = [buffers EXCEPT ![m] = 0]
            /\ bufs' = bufs /\ objs' = objs
            /\ IF buffers[m] = 0
               THEN pc'[t] = "done" /\ buffers' = buffers
               ELSE pc'[t] = "lock" /\ frame'[t].buffer = buffers[m]
        /\ Commits(t, "clear_meeting", m) =>
            /\ buffers'[m] = 0
            /\ bufs'[frame[t].buffer] = TranscriptBuffer
            /\ recent(m)' = <<>> /\ history(m)' = <<>>
        /\ \A op \in {"get_recent_entries", "get_full_entries"} :
              (Starts(t, op, m) /\ buffers[m] = 0) =>
                  pc'[t] = "done" /\ frame'[t].out = <<>>
        /\ \A op \in {"FINAL", "PARTIAL"} :
              (Starts(t, op, m) /\ buffers[m] = 0) =>
                  /\ buffers'[m] = Len(bufs) + 1
                  /\ bufs' = Append(bufs, TranscriptBuffer)
        /\ (Ingests(t, m) /\ history(m) = <<>>) =>
              history(m)' = <<frame'[t].ret>> /\ recent(m)' = <<frame'[t].ret>>
        /\ \A b \in 1..Len(bufs') :
              ((\A m2 \in Meetings : buffers'[m2] # b)
                  /\ (\A u \in Tasks : pc'[u] \in {"lock", "cs"} => frame'[u].buffer # b))
              => bufs'[b] = TranscriptBuffer
      ]_vars

\* an entry was stored for a meeting whose first buffer, which held an entry,
\* had been cleared: the history is that entry alone, in the second buffer
C7_Witness ==
    \E t \in Tasks, m \in Meetings, op \in {"FINAL", "PARTIAL"} :
        /\ Finished(t, op, m)
        /\ frame[t].ret = Len(objs)
        /\ Len(objs) >= 2
        /\ buffers[m] = 2
        /\ \A m2 \in Meetings : buffers[m2] # 1
        /\ bufs[1] = TranscriptBuffer
        /\ history(m) = <<frame[t].ret>>
        /\ recent(m) = <<frame[t].ret>>

----------------------------------------------------------------------------
(* C8: copy semantics.  What a caller does to a list it was handed, to an   *)
(* entry in such a list or to the entry an ingest returned changes nothing  *)
(* a later get_recent_entries or get_full_entries returns: a step that is   *)
(* the caller's (no call moves, the buffers are as they were) leaves the    *)
(* entries of the recent and history views of every meeting as they are.    *)
C8_CopySemantics ==
    [][(pc' = pc /\ buffers' = buffers /\ bufs' = bufs) =>
          \A m \in Meetings :
              /\ Values(recent(m))' = Values(recent(m))
              /\ Values(history(m))' = Values(history(m))
      ]_vars

----------------------------------------------------------------------------
(* C9: init_meeting registers a new, empty buffer for a meeting that has    *)
(* none and is otherwise a no-op: on a meeting with a buffer, whatever was  *)
(* ingested, the same buffer stays registered and no buffer or entry        *)
(* changes.                                                                 *)
C9_InitIdempotent ==
    [][\A t \in Tasks, m \in Meetings :
        Starts(t, "init_meeting", m) =>
            /\ pc'[t] = "done"
            /\ objs' = objs
            /\ IF buffers[m] # 0
               THEN buffers' = buffers /\ bufs' = bufs
               ELSE /\ buffers' = [buffers EXCEPT ![m] = Len(bufs) + 1]
                    /\ bufs' = Append(bufs, TranscriptBuffer)
      ]_vars

\* init_meeting has returned on a meeting that holds entries
C9_Witness ==
    \E t \in Tasks, m \in Meetings :
        /\ Finished(t, "init_meeting", m)
        /\ recent(m) # <<>>
        /\ Len(history(m)) >= 2

----------------------------------------------------------------------------
(* C10: entry text.  The text of every entry of every buffer is non-empty,  *)
(* has no whitespace but single spaces between words, none at either end,   *)
(* and ends in '.', '!' or '?'; it is the raw text's words joined by single *)
(* spaces, with a '.' appended exactly when the last word does not end in   *)
(* one of these, so that normalizing it again changes nothing.              *)

\* the characters of x that are not whitespace, in order
NonWs(x) == SelectSeq(x, LAMBDA c : c \notin Whitespace)

\* how many words x has
Words(x) ==
    Cardinality({i \in 1..Len(x) :
        x[i] \notin Whitespace /\ (i = 1 \/ x[i - 1] \in Whitespace)})

WellFormed(x) ==
    /\ x # <<>>
    /\ x[1] \notin Whitespace
    /\ Last(x) \in Terminators
    /\ \A i \in 1..Len(x) :
          x[i] \in Whitespace => x[i] = " " /\ x[i + 1] \notin Whitespace

\* n is raw text x as it must be stored
Normalizes(x, n) ==
    /\ WellFormed(n)
    /\ NonWs(n) = IF Last(NonWs(x)) \in Terminators
                  THEN NonWs(x)
                  ELSE Append(NonWs(x), ".")
    /\ Words(n) = Words(x)
    /\ _normalize_text(n) = n

\* every text of at most MaxLen characters of Alphabet
Texts == UNION {[1..n -> Alphabet] : n \in 0..MaxLen}

NormalizeLaw ==
    /\ \A x \in Texts :
          IF Blank(x)
          THEN _normalize_text(x) = <<>>
          ELSE Normalizes(x, _normalize_text(x))
    /\ _normalize_text(<<"h", "e", "l", "l", "o", " ", "w", "o", "r", "l", "d">>)
          = <<"h", "e", "l", "l", "o", " ", "w", "o", "r", "l", "d", ".">>
    /\ _normalize_text(<<"A", "l", "r", "e", "a", "d", "y", " ", "d", "o", "n", "e", "!">>)
          = <<"A", "l", "r", "e", "a", "d", "y", " ", "d", "o", "n", "e", "!">>
    /\ _normalize_text(<<"a", " ", " ", " ", "b", "\t", "c">>)
          = <<"a", " ", "b", " ", "c", ".">>

C10_EntryText ==
    /\ \A b \in 1..Len(bufs) :
          \A r \in Refs(bufs[b].entries) \cup Refs(bufs[b].full_entries) :
              /\ WellFormed(objs[r].text)
              /\ _normalize_text(objs[r].text) = objs[r].text
    /\ \A t \in Tasks :
          frame[t].entry # 0 => Normalizes(frame[t].text, objs[frame[t].entry].text)
    /\ NormalizeLaw

\* a text with leading, repeated and tab whitespace was stored collapsed and
\* without a further '.', next to one that got its '.'
C10_Witness ==
    \E t \in Tasks, m \in Meetings, op \in {"FINAL", "PARTIAL"} :
        /\ Finished(t, op, m)
        /\ frame[t].text = <<" ", "a", " ", "\t", "b", "!">>
        /\ frame[t].ret # 0
        /\ objs[frame[t].ret].text = <<"a", " ", "b", "!">>
        /\ \E i \in 1..Len(history(m)) : objs[history(m)[i]].text = <<"h", "i", ".">>

----------------------------------------------------------------------------
(* C11: lock discipline. *)

\* this step of task t compares the text of a final fragment with the last
\* entry of the deque of buffer b (line 58, reached with a non-empty normalized
\* text and allow_duplicates false)
ComparesLast(t, b) ==
    /\ pc[t] \in {"idle", "ready"}
    /\ pc'[t] \in {"lock", "done"}
    /\ frame'[t].op = "FINAL"
    /\ ~Blank(frame'[t].text)
    /\ frame'[t].buffer = b

\* this step is the critical section of a call of task t on buffer b: the
\* prune and appends of an ingest, the prune and copy of get_recent_entries,
\* the copy of get_full_entries, the clears of clear_meeting
InCriticalSection(t, b) ==
    /\ pc[t] = "cs"
    /\ pc'[t] = "done"
    /\ frame[t].buffer = b

\* this step changes a sequence of buffer b
Writes(b) ==
    /\ b <= Len(bufs)
    /\ \/ bufs'[b].entries # bufs[b].entries
       \/ bufs'[b].full_entries # bufs[b].full_entries

\* task t holds the lock of buffer b
Holds(t, b) ==
    /\ pc[t] = "cs"
    /\ frame[t].buffer = b
    /\ b <= Len(bufs)
    /\ bufs[b].lock

\* at most one task is inside the critical section of a buffer, and a lock is
\* taken exactly while a task is inside
OneInside ==
    \A b \in 1..Len(bufs) :
        /\ Cardinality({t \in Tasks : pc[t] = "cs" /\ frame[t].buffer = b}) <= 1
        /\ bufs[b].lock <=> \E t \in Tasks : pc[t] = "cs" /\ frame[t].buffer = b

(* C11 as stated: every read and every write of a buffer's sequences, the   *)
(* dedup comparison of an ingest included, is made by a task that holds the *)
(* buffer's lock, and at most one task is inside a buffer's critical        *)
(* section.                                                                 *)
C11_AsStated ==
    [][/\ \A t \in Tasks, b \in 1..Len(bufs') :
            (ComparesLast(t, b) \/ InCriticalSection(t, b)) => Holds(t, b)
       /\ \A b \in 1..Len(bufs) : Writes(b) => \E t \in Tasks : Holds(t, b)
       /\ OneInside
      ]_vars

(* C11 amended: every write of a buffer's sequences, and every read of them *)
(* in get_recent_entries, get_full_entries, clear_meeting and the prune of  *)
(* an ingest, is made by a task that holds the buffer's lock and releases   *)
(* it with that step, and at most one task is inside a buffer's critical    *)
(* section; the dedup comparison of a final ingest reads the last entry of  *)
(* recent before the lock is acquired, by a task that does not hold it,     *)
(* while no task holds it.                                                  *)
C11_LockDiscipline ==
    [][/\ \A t \in Tasks, b \in 1..Len(bufs') :
            /\ InCriticalSection(t, b) => Holds(t, b) /\ ~bufs'[b].lock
            /\ ComparesLast(t, b) =>
                  /\ ~Holds(t, b)
                  /\ ~bufs'[b].lock
                  /\ \A u \in Tasks : ~Holds(u, b)
       /\ \A b \in 1..Len(bufs) :
            Writes(b) => \E t \in Tasks : InCriticalSection(t, b) /\ Holds(t, b)
       /\ OneInside
      ]_vars

\* a final ingest, past its comparison with the last entry of a non-empty
\* recent, is inside the critical section with the lock, another call on the
\* meeting waiting
C11_Witness ==
    \E t \in Tasks, u \in Tasks :
        /\ pc[t] = "cs"
        /\ frame[t].op = "FINAL"
        /\ Holds(t, frame[t].buffer)
        /\ bufs[frame[t].buffer].entries # <<>>
        /\ pc[u] = "ready"
        /\ frame[u].meeting_id = frame[t].meeting_id

----------------------------------------------------------------------------
(* C12: retrieval is read-only apart from the front pruning of recent.  No  *)
(* step of a get_full_entries call changes the registry, an entry or a      *)
(* sequence of any buffer (it does not prune), and it returns the history;  *)
(* no step of a get_recent_entries call changes the registry, an entry or   *)
(* a history, and it changes the recent view only by removing a prefix,     *)
(* returning what is left; on an id without a registered buffer both return *)
(* an empty list at once and register no buffer.                            *)

\* this step belongs to a call of op in task t
StepOf(t, op) ==
    /\ pc'[t] # pc[t]
    /\ \/ pc[t] \in {"idle", "ready"} /\ pc'[t] \in {"lock", "done"} /\ frame'[t].op = op
       \/ pc[t] \in {"lock", "cs"} /\ frame[t].op = op

C12_RetrievalReadOnly ==
    [][\A t \in Tasks :
        /\ StepOf(t, "get_full_entries") =>
            /\ buffers' = buffers /\ objs' = objs
            /\ Len(bufs') = Len(bufs)
            /\ \A b \in 1..Len(bufs) :
                  /\ bufs'[b].entries = bufs[b].entries
                  /\ bufs'[b].full_entries = bufs[b].full_entries
        /\ StepOf(t, "get_recent_entries") =>
            /\ buffers' = buffers /\ objs' = objs
            /\ Len(bufs') = Len(bufs)
            /\ \A b \in 1..Len(bufs) :
                  /\ IsSuffix(bufs'[b].entries, bufs[b].entries)
                  /\ bufs'[b].full_entries = bufs[b].full_entries
        /\ \A m \in Meetings :
            /\ Commits(t, "get_full_entries", m) => frame'[t].out = history(m)
            /\ Commits(t, "get_recent_entries", m) => frame'[t].out = recent(m)'
            /\ \A op \in {"get_recent_entries", "get_full_entries"} :
                  (Starts(t, op, m) /\ buffers[m] = 0) =>
                      /\ pc'[t] = "done"
                      /\ frame'[t].out = <<>>
                      /\ buffers'[m] = 0
                      /\ bufs' = bufs
      ]_vars

\* get_full_entries has returned an empty list on an id without a buffer and
\* the id is still not registered, while another meeting, whose recent view a
\* get_recent_entries had pruned empty, still has its history
C12_Witness ==
    \E t \in Tasks, a \in Meetings, b \in Meetings :
        /\ Finished(t, "get_full_entries", a)
        /\ frame[t].buffer = 0
        /\ frame[t].out = <<>>
        /\ buffers[a] = 0
        /\ buffers[b] # 0
        /\ recent(b) = <<>>
        /\ Len(history(b)) >= 2

----------------------------------------------------------------------------
(* C13 as stated: whenever add_final_transcript is accepted on a meeting    *)
(* with a history, its normalized text differs from the text of the last    *)
(* entry of the history.                                                    *)
C13_AsStated ==
    [][\A t \in Tasks, m \in Meetings :
        (Commits(t, "FINAL", m) /\ history(m) # <<>>) =>
            objs[frame'[t].ret].text # objs[Last(history(m))].text
      ]_vars

(* C13 amended: add_final_transcript is rejected as a duplicate exactly     *)
(* when recent is not empty and its last entry has the fragment's           *)
(* normalized text.  While recent is not empty its last entry is the last   *)
(* entry of history, so an accepted final fragment differs from the entry   *)
(* stored last; once get_recent_entries has pruned recent empty, a final    *)
(* fragment is accepted also when it equals the last entry of history.      *)
C13_DedupAgainstRecent ==
    [][\A t \in Tasks, m \in Meetings :
        /\ (Starts(t, "FINAL", m) /\ ~Blank(frame'[t].text)) =>
            (pc'[t] = "done" <=>
                /\ recent(m) # <<>>
                /\ objs[Last(recent(m))].text = _normalize_text(frame'[t].text))
        /\ recent(m) # <<>> => Last(recent(m)) = Last(history(m))
        /\ (Commits(t, "FINAL", m) /\ recent(m) # <<>>) =>
            objs[frame'[t].ret].text # objs[Last(history(m))].text
        /\ (Commits(t, "FINAL", m) /\ recent(m) = <<>>) =>
            /\ recent(m)' = <<frame'[t].ret>>
            /\ history(m)' = Append(history(m), frame'[t].ret)
      ]_vars

\* a final fragment was accepted with the text of the entry stored before it:
\* recent had been pruned empty
C13_Witness ==
    \E t \in Tasks, m \in Meetings :
        /\ Finished(t, "FINAL", m)
        /\ frame[t].ret # 0
        /\ Len(history(m)) >= 2
        /\ Last(history(m)) = frame[t].ret
        /\ objs[history(m)[Len(history(m)) - 1]].text = objs[frame[t].ret].text
        /\ recent(m) = <<frame[t].ret>>

----------------------------------------------------------------------------
(* C14: the dedup race of two concurrent final fragments. *)

\* tasks t and u hold the results of two calls of add_final_transcript on
\* meeting m with the same non-empty normalized text; the two calls were made
\* in one batch, so both waited in the ready queue before either ran
ConcurrentFinals(t, u, m) ==
    /\ t # u
    /\ Finished(t, "FINAL", m)
    /\ Finished(u, "FINAL", m)
    /\ _normalize_text(frame[t].text) = _normalize_text(frame[u].text)
    /\ ~Blank(frame[t].text)

\* es ends with the entries a and b, in either order
EndsWithPair(es, a, b) ==
    /\ Len(es) >= 2
    /\ {es[Len(es) - 1], es[Len(es)]} = {a, b}

(* C14 as stated, of every interleaving (the claim states it of one): two   *)
(* concurrent add_final_transcript calls with the same normalized text on a *)
(* meeting, one of which is accepted, both pass the check and both append,  *)
(* leaving two adjacent entries of equal text in recent and history.        *)
C14_AsStated ==
    \A t \in Tasks, u \in Tasks, m \in Meetings :
        (ConcurrentFinals(t, u, m) /\ frame[t].ret # 0) =>
            /\ frame[u].ret # 0
            /\ EndsWithPair(recent(m), frame[t].ret, frame[u].ret)
            /\ EndsWithPair(history(m), frame[t].ret, frame[u].ret)

(* C14 amended: the adjacency check reads the last entry of recent before   *)
(* the lock is acquired, but no call runs between a call's check and its    *)
(* append: acquiring the free lock does not suspend the coroutine, so no    *)
(* two calls are past their check at once and no call finds a lock taken.   *)
(* In every interleaving of two concurrent add_final_transcript calls with  *)
(* the same normalized text on a meeting at most one is accepted, and the   *)
(* entry it appends follows no entry of equal text in recent.               *)
C14_NoDedupRace ==
    /\ \A t \in Tasks, u \in Tasks :
          (t # u /\ pc[t] \in {"lock", "cs"}) => pc[u] \notin {"lock", "cs"}
    /\ \A t \in Tasks : pc[t] = "lock" => ~bufs[frame[t].buffer].lock
    /\ \A t \in Tasks, u \in Tasks, m \in Meetings :
          (ConcurrentFinals(t, u, m) /\ frame[t].ret # 0) =>
              /\ frame[u].ret = 0
              /\ Last(recent(m)) = frame[t].ret
              /\ Last(history(m)) = frame[t].ret
              /\ Len(recent(m)) >= 2 =>
                    objs[recent(m)[Len(recent(m)) - 1]].text # objs[frame[t].ret].text

\* of two concurrent final fragments with the same text the one that ran
\* second (the task made first) was rejected, the other one is stored after
\* an entry of another text
C14_Witness ==
    \E m \in Meetings :
        /\ ConcurrentFinals(2, 1, m)
        /\ frame[2].ret # 0
        /\ frame[1].ret = 0
        /\ Len(recent(m)) >= 2
        /\ Last(recent(m)) = frame[2].ret

----------------------------------------------------------------------------
(* C15: ingestion is deterministic in event time. *)

\* the first position from `from` on, below `to`, of an entry of es with a
\* timestamp of at least cutoff; `to` if there is none
FirstSince(es, from, to, cutoff) ==
    CHOOSE k \in from..to :
        /\ k = to \/ objs[es[k]].timestamp >= cutoff
        /\ \A j \in from..(k - 1) : objs[es[j]].timestamp < cutoff

\* es without its leading entries of a timestamp below cutoff
DropOld(es, cutoff) == SubSeq(es, FirstSince(es, 1, Len(es) + 1, cutoff), Len(es))

\* where the recent view starts in h once the first i entries of h were
\* ingested, one after the other and nothing else
RECURSIVE Start(_, _)
Start(h, i) ==
    IF i = 0 THEN 1
    ELSE FirstSince(h, Start(h, i - 1), i, objs[h[i]].timestamp - BUFFER_WINDOW_MS)

\* the recent view that ingesting the entries of h, one after the other and
\* nothing else, leaves: what the ingest calls alone determine
Replay(h) == SubSeq(h, Start(h, Len(h)), Len(h))

(* C15 as stated: the contents of recent and the outcome of a final ingest  *)
(* are those the meeting's ingest calls determine, whatever the wall clock  *)
(* was in the run.                                                          *)
C15_AsStated ==
    [][\A t \in Tasks, m \in Meetings :
        /\ recent(m)' = Replay(history(m))'
        /\ (Starts(t, "FINAL", m) /\ ~Blank(frame'[t].text)) =>
            (pc'[t] = "done" <=>
                /\ history(m) # <<>>
                /\ objs[Last(history(m))].text = _normalize_text(frame'[t].text))
      ]_vars

(* C15 amended: an ingest prunes with the incoming entry's own timestamp    *)
(* and never reads the wall clock, so as long as no get_recent_entries has  *)
(* pruned, recent is what the meeting's ingest calls determine; the prune   *)
(* of get_recent_entries, by the wall clock, is the only step that makes    *)
(* recent differ from that, and only by leaving a shorter suffix of it, on  *)
(* which the dedup outcome of the next final ingest then depends.           *)
C15_EventTime ==
    [][\A t \in Tasks, m \in Meetings :
        /\ Ingests(t, m) =>
            /\ recent(m)' = Append(DropOld(recent(m),
                                  objs[frame[t].entry].timestamp - BUFFER_WINDOW_MS),
                                  frame[t].entry)
            /\ frame'[t].now = 0
        /\ Commits(t, "get_recent_entries", m) =>
            recent(m)' = DropOld(recent(m), frame'[t].now - BUFFER_WINDOW_MS)
        /\ (recent(m) = Replay(history(m))
                /\ \A u \in Tasks : ~Commits(u, "get_recent_entries", m))
              => recent(m)' = Replay(history(m))'
        /\ (Starts(t, "FINAL", m) /\ ~Blank(frame'[t].text)
                /\ recent(m) = Replay(history(m))) =>
            (pc'[t] = "done" <=>
                /\ history(m) # <<>>
                /\ objs[Last(history(m))].text = _normalize_text(frame'[t].text))
        /\ IsSuffix(recent(m)', Replay(history(m))')
      ]_vars

\* three ingests, the last of which pruned the first entry by its own
\* timestamp: recent is what the ingest calls determine
C15_Witness ==
    \E t \in Tasks, m \in Meetings, op \in {"FINAL", "PARTIAL"} :
        /\ Finished(t, op, m)
        /\ frame[t].ret # 0
        /\ Len(history(m)) = 3
        /\ Len(recent(m)) = 2
        /\ recent(m) = Replay(history(m))

----------------------------------------------------------------------------
(* C16: a prune with reference time t removes entries from the front of     *)
(* recent only and stops at the first entry with a timestamp >= t - 30000:  *)
(* what it leaves is a suffix of recent, every entry it removed has a       *)
(* timestamp < t - 30000 (an entry at exactly t - 30000 stays), the front   *)
(* entry it leaves, if any, has a timestamp >= t - 30000, and an expired    *)
(* entry behind that front entry stays.  The reference time is the entry's  *)
(* timestamp in an ingest and the wall clock in get_recent_entries.         *)

\* left is what a prune with reference time ref leaves of es
PrunedTo(es, left, ref) ==
    LET cutoff == ref - BUFFER_WINDOW_MS
        removed == Len(es) - Len(left)
    IN
    /\ IsSuffix(left, es)
    /\ \A i \in 1..removed : objs[es[i]].timestamp < cutoff
    /\ left # <<>> => objs[left[1]].timestamp >= cutoff
    /\ \A i \in 1..Len(es) :
          objs[es[i]].timestamp = cutoff => \E k \in 1..Len(left) : left[k] = es[i]
    /\ \A i \in 1..Len(es), j \in 1..Len(es) :
          (i < j /\ objs[es[i]].timestamp >= cutoff)
          => \E k \in 1..Len(left) : left[k] = es[j]

C16_PruneFront ==
    [][\A t \in Tasks, m \in Meetings :
        /\ Ingests(t, m) =>
            /\ recent(m)' # <<>>
            /\ PrunedTo(recent(m), SubSeq(recent(m)', 1, Len(recent(m)') - 1),
                        objs[frame[t].entry].timestamp)
        /\ Commits(t, "get_recent_entries", m) =>
            PrunedTo(recent(m), recent(m)', frame'[t].now)
      ]_vars

\* entries at 0, 10000 and 0 pruned at 40000: the first one is removed, the one
\* at the cutoff stays, and so does the expired one behind it
C16_Witness ==
    \E t \in Tasks, m \in Meetings :
        /\ Finished(t, "get_recent_entries", m)
        /\ frame[t].now = 40000
        /\ Len(history(m)) = 3
        /\ objs[history(m)[1]].timestamp = 0
        /\ objs[history(m)[2]].timestamp = 10000
        /\ objs[history(m)[3]].timestamp = 0
        /\ recent(m) = SubSeq(history(m), 2, 3)

----------------------------------------------------------------------------
(* C17 as stated: in every reachable state the recent view of every meeting *)
(* is ordered by timestamp, non-decreasing from front to back.              *)
C17_AsStated == \A m \in Meetings : NonDecreasing(recent(m))

(* C17 amended: recent is in arrival order.  It is ordered by timestamp,    *)
(* non-decreasing from front to back, whenever the entries of the meeting   *)
(* arrived with non-decreasing timestamps; an ingest with a timestamp below *)
(* that of the last entry of recent is appended behind that entry all the   *)
(* same and leaves recent out of timestamp order, and no retrieval sorts    *)
(* it.                                                                      *)
C17_ArrivalOrder ==
    [][\A t \in Tasks, m \in Meetings :
        /\ NonDecreasing(history(m)') => NonDecreasing(recent(m)')
        /\ (Ingests(t, m) /\ recent(m) # <<>>
                /\ objs[frame[t].entry].timestamp < objs[Last(recent(m))].timestamp) =>
            /\ Len(recent(m)') >= 2
            /\ recent(m)'[Len(recent(m)') - 1] = Last(recent(m))
            /\ Last(recent(m)') = frame[t].entry
            /\ ~NonDecreasing(recent(m)')
        /\ (Commits(t, "get_recent_entries", m) /\ ~NonDecreasing(recent(m))
                /\ Len(recent(m)') = Len(recent(m))) =>
            ~NonDecreasing(frame'[t].out)
      ]_vars

\* an entry that arrived with a timestamp below that of the entry before it
\* is the last entry of recent
C17_Witness ==
    \E t \in Tasks, m \in Meetings, op \in {"FINAL", "PARTIAL"} :
        /\ Finished(t, op, m)
        /\ frame[t].ret # 0
        /\ Len(recent(m)) >= 2
        /\ Last(recent(m)) = frame[t].ret
        /\ objs[recent(m)[Len(recent(m)) - 1]].timestamp > objs[frame[t].ret].timestamp

----------------------------------------------------------------------------
(* C18: no deadlock, and every call completes.  A call takes no lock but    *)
(* that of the buffer it looked up, one lock at most, and has released it   *)
(* when it returns; a call that is about to acquire a lock finds it free,   *)
(* so that no call waits for a lock, whether held for its own meeting or    *)
(* for another; and under a fair event loop every call made (init_meeting,  *)
(* add_final_transcript, add_partial_transcript, get_recent_entries,        *)
(* get_full_entries, clear_meeting) returns, with every lock free.          *)

\* no lock is taken
AllFree == \A b \in 1..Len(bufs) : ~bufs[b].lock

C18_Completion ==
    /\ [](/\ OneInside
          /\ Cardinality({b \in 1..Len(bufs) : bufs[b].lock}) <= 1
          /\ \A t \in Tasks : pc[t] = "lock" => ~bufs[frame[t].buffer].lock
          /\ (\A t \in Tasks : pc[t] \in {"idle", "ready", "done"}) => AllFree)
    /\ \A t \in Tasks : (pc[t] = "ready") ~> (pc[t] = "done" /\ AllFree)

\* two concurrent ingests, one on each meeting, have both returned their
\* entry, and every lock is free
C18_Witness ==
    /\ Finished(1, "FINAL", "A")
    /\ Finished(2, "FINAL", "B")
    /\ frame[1].ret # 0
    /\ frame[2].ret # 0
    /\ history("A") # <<>>
    /\ history("B") # <<>>
    /\ AllFree

----------------------------------------------------------------------------
(* C19: lazy creation loses no entry.  Of concurrent init_meeting and       *)
(* ingest calls on a meeting, in any order of running, the first to run     *)
(* registers a new empty buffer if the id has none and every other one      *)
(* finds that buffer and constructs none; only clear_meeting replaces a     *)
(* registered buffer; an accepted ingest appends its entry to the history   *)
(* of the buffer registered for its meeting.  So once the calls of a batch  *)
(* without clear_meeting have returned, one buffer is registered for the id *)
(* and its history holds every entry the ingests returned.                  *)

\* task t holds the result of a call that is not a clear_meeting on meeting m
NoClear(t, m) ==
    /\ pc[t] = "done"
    /\ frame[t].meeting_id = m
    /\ frame[t].op # "clear_meeting"

C19_LazyCreation ==
    [][\A t \in Tasks, m \in Meetings :
        /\ \A op \in Registering :
              Starts(t, op, m) =>
                  IF buffers[m] # 0
                  THEN /\ buffers' = buffers
                       /\ Len(bufs') = Len(bufs)
                       /\ history(m)' = history(m)
                       /\ recent(m)' = recent(m)
                  ELSE /\ buffers' = [buffers EXCEPT ![m] = Len(bufs) + 1]
                       /\ bufs' = Append(bufs, TranscriptBuffer)
        /\ (buffers[m] # 0 /\ buffers'[m] # buffers[m]) =>
              \E u \in Tasks : Starts(u, "clear_meeting", m)
        /\ Ingests(t, m) =>
            /\ frame[t].buffer = buffers[m]
            /\ frame'[t].ret # 0
            /\ history(m)' = Append(history(m), frame'[t].ret)
        /\ (\A u \in Tasks : NoClear(u, m))' =>
            /\ (\E u \in Tasks : frame'[u].op \in Registering) => buffers'[m] # 0
            /\ \A u \in Tasks :
                  frame'[u].ret # 0 => frame'[u].ret \in Refs(history(m)')
      ]_vars

\* init_meeting and an ingest, made together on an id that no buffer was ever
\* constructed for, have both returned: one buffer, holding the entry
C19_Witness ==
    \E t \in Tasks, u \in Tasks, m \in Meetings, op \in Storing :
        /\ Finished(t, "init_meeting", m)
        /\ Finished(u, op, m)
        /\ frame[u].ret # 0
        /\ Len(bufs) = 1
        /\ buffers[m] = 1
        /\ history(m) = <<frame[u].ret>>

----------------------------------------------------------------------------
(* C20: recent is a contiguous suffix of history.  In every state, for      *)
(* every buffer ever constructed (its lock free or held), the deque equals  *)
(* the last Len(deque) entries of the list, in order.  The snapshot         *)
(* get_recent_entries returns is the deque at that moment and a suffix of   *)
(* the history, and a prune leaves a suffix of the deque it found; the      *)
(* snapshot get_full_entries returns is the history, of which the deque is  *)
(* a suffix; clear_meeting empties both views of the buffer; right after an *)
(* accepted ingest the returned entry is the last entry of both views.      *)

C20_RecentSuffix ==
    [][/\ \A b \in 1..Len(bufs') :
             IsSuffix(bufs'[b].entries, bufs'[b].full_entries)
       /\ \A t \in Tasks, m \in Meetings :
            LET b == frame[t].buffer IN
            /\ Commits(t, "get_recent_entries", m) =>
                /\ frame'[t].out = bufs'[b].entries
                /\ IsSuffix(frame'[t].out, bufs'[b].full_entries)
                /\ IsSuffix(bufs'[b].entries, bufs[b].entries)
                /\ bufs'[b].full_entries = bufs[b].full_entries
            /\ Commits(t, "get_full_entries", m) =>
                /\ frame'[t].out = bufs'[b].full_entries
                /\ IsSuffix(bufs'[b].entries, frame'[t].out)
            /\ Commits(t, "clear_meeting", m) =>
                /\ bufs'[b].entries = <<>>
                /\ bufs'[b].full_entries = <<>>
            /\ Ingests(t, m) =>
                /\ frame'[t].ret # 0
                /\ bufs'[b].entries # <<>>
                /\ bufs'[b].entries[Len(bufs'[b].entries)] = frame'[t].ret
                /\ bufs'[b].full_entries = Append(bufs[b].full_entries, frame'[t].ret)
                /\ IsSuffix(SubSeq(bufs'[b].entries, 1, Len(bufs'[b].entries) - 1),
                            bufs[b].entries)
      ]_vars

\* a reader holds a snapshot of recent that is a proper, non-empty suffix of
\* the history: the prune dropped a prefix
C20_Witness ==
    \E t \in Tasks, m \in Meetings :
        /\ Finished(t, "get_recent_entries", m)
        /\ frame[t].out # <<>>
        /\ frame[t].out = recent(m)
        /\ Len(frame[t].out) < Len(history(m))
        /\ IsSuffix(frame[t].out, history(m))

====
